---- MODULE Spec2Model ----
(***************************************************************************)
(* A model of the reranking pipeline of open-retrievals                    *)
(* (src/retrievals/models/rerank.py): DocumentSplitter.create_documents,   *)
(* compute_score, AutoModelForRanking.rerank, ColBERT.score, and of the    *)
(* InfoNCE loss (src/retrievals/losses/infonce.py).                        *)
(*                                                                         *)
(* A text is modelled by the token ids the tokenizer gives it.  The query  *)
(* is a number of word tokens (0 is the empty string), a document is its   *)
(* number of tokens: the document of n tokens has the ids 1..n, so that a  *)
(* window of it shows which positions it was cut from.                     *)
(***************************************************************************)
EXTENDS Integers, Sequences, FiniteSets, TLC

\* ------------------------------------------------------------- bounds
MaxDocs == 2
MaxDocLen == 2
MaxQueryLen == 1
MaxChunkSize == 7
MaxOverlap == 1
MaxBatch == 2
MaxDim == 2
MaxTokens == 2

\* The windows of one document after which the model stops following a
\* sliding-window loop: a loop that ends emits at most one window per token.
MaxWindows == MaxDocLen + 1

\* ------------------------------------------------------------- tokenizer
cls_id == 101
sep_id == 102

Min(a, b) == IF a < b THEN a ELSE b
Max(a, b) == IF a > b THEN a ELSE b

Ones(n) == [i \in 1..n |-> 1]
Zeros(n) == [i \in 1..n |-> 0]

\* tokenizer.encode_plus(query, truncation=False, padding=False): the word
\* tokens between the two special tokens.
EncodeQuery(qn, tti) ==
    [input_ids      |-> <<cls_id>> \o [j \in 1..qn |-> cls_id + sep_id + j] \o <<sep_id>>,
     attention_mask |-> Ones(qn + 2),
     token_type_ids |-> IF tti THEN Zeros(qn + 2) ELSE <<>>]

\* tokenizer.encode_plus(document, ..., add_special_tokens=False)
EncodeDocument(n, tti) ==
    [input_ids      |-> [i \in 1..n |-> i],
     attention_mask |-> Ones(n),
     token_type_ids |-> IF tti THEN Zeros(n) ELSE <<>>]

\* ------------------------------------------------------------- python lists
\* The index a slice bound b stands for in a list of n items.
SliceIndex(b, n) == IF b < 0 THEN Max(n + b, 0) ELSE Min(b, n)

\* v[s:e]
PySlice(v, s, e) == SubSeq(v, SliceIndex(s, Len(v)) + 1, SliceIndex(e, Len(v)))

\* ------------------------------------------------------------- state
VARIABLES
    pc,                    \* where the running call is
    op,                    \* the operation the caller invoked
    exception,             \* the error the call ended with, "" for none
    query,                 \* rerank / create_documents arguments
    documents,
    chunk_size,
    chunk_overlap,
    has_tti,               \* whether the tokenizer returns token_type_ids
    query_inputs,          \* create_documents locals
    res_merge_inputs,
    res_merge_inputs_pids,
    pid,
    start_id,
    n_windows,             \* windows emitted for the document at hand
    splitter_calls,        \* calls of create_documents made by rerank
    batch_size_arg,        \* compute_score arguments
    normalize,
    text_pairs,
    batch_size,            \* compute_score locals
    batch_start,           \* the loop variable i of compute_score
    scores_list,
    batches,               \* the slices handed to the encoder, as <<first, count>>
    logits,                \* what the encoder answered, per scored item
    tot_scores,            \* what compute_score returned
    merge_scores,          \* rerank locals
    result,                \* what rerank returned
    argsorted,             \* the order np.argsort gave each array it was asked to sort
    rerank_calls,          \* calls of rerank made so far
    perm,                  \* second call: the new place of each document of the first
    first,                 \* second call: what the first call was given and returned
    negative_mode,         \* InfoNCE.negative_mode, "" before construction
    forward_args,          \* the shapes the last InfoNCE.forward was given
    forward_outcome,       \* how it ended: "loss", or the error raised
    similarity_metric,     \* ColBERT.score arguments
    query_embedding,
    document_embedding,
    score                  \* what ColBERT.score returned

splitVars == <<query, documents, chunk_size, chunk_overlap, has_tti, query_inputs,
               res_merge_inputs, res_merge_inputs_pids, pid, start_id, n_windows>>
scoreVars == <<batch_size_arg, normalize, text_pairs, batch_size, batch_start, scores_list,
               batches, logits, tot_scores>>
rerankVars == <<splitter_calls, merge_scores, result, argsorted, rerank_calls, perm, first>>
harnessVars == <<rerank_calls, perm, first>>

lossVars == <<negative_mode, forward_args, forward_outcome>>

colbertVars == <<similarity_metric, query_embedding, document_embedding, score>>

vars == <<pc, op, exception, splitVars, scoreVars, rerankVars, lossVars, colbertVars>>

NoInputs == [input_ids |-> <<>>, attention_mask |-> <<>>, token_type_ids |-> <<>>]

NoScores == [scalar |-> FALSE, values |-> <<>>]
NoResult == [keys |-> "", documents |-> <<>>, scores |-> <<>>, ids |-> <<>>]

NoArgs == [query |-> <<>>, positive |-> <<>>, negative |-> <<>>]
NoFirst == [documents |-> <<>>, merge_scores |-> <<>>, result |-> NoResult]

Init ==
    /\ pc = "idle"
    /\ op = ""
    /\ exception = ""
    /\ query = 0
    /\ documents = <<>>
    /\ chunk_size = 0
    /\ chunk_overlap = 0
    /\ has_tti = FALSE
    /\ query_inputs = NoInputs
    /\ res_merge_inputs = <<>>
    /\ res_merge_inputs_pids = <<>>
    /\ pid = 0
    /\ start_id = 0
    /\ n_windows = 0
    /\ splitter_calls = 0
    /\ batch_size_arg = 0
    /\ normalize = FALSE
    /\ text_pairs = <<>>
    /\ batch_size = 0
    /\ batch_start = 0
    /\ scores_list = <<>>
    /\ batches = <<>>
    /\ logits = <<>>
    /\ tot_scores = NoScores
    /\ merge_scores = <<>>
    /\ result = NoResult
    /\ argsorted = <<>>
    /\ rerank_calls = 0
    /\ perm = <<>>
    /\ first = NoFirst
    /\ negative_mode = ""
    /\ forward_args = NoArgs
    /\ forward_outcome = ""
    /\ similarity_metric = ""
    /\ query_embedding = <<>>
    /\ document_embedding = <<>>
    /\ score = 0

\* ------------------------------------------------------------- DocumentSplitter
\* doc_max_length = self.chunk_size - len(query_inputs['input_ids']) - 2
doc_max_length == chunk_size - Len(query_inputs.input_ids) - 2

\* {k: v[start_id:end_id] for k, v in document_inputs.items()}
SubDocument(document_inputs, s, e) ==
    [input_ids      |-> PySlice(document_inputs.input_ids, s, e),
     attention_mask |-> PySlice(document_inputs.attention_mask, s, e),
     token_type_ids |-> PySlice(document_inputs.token_type_ids, s, e)]

\* _merge_inputs raises IndexError at chunk2['attention_mask'][0] when the
\* document part holds no token.
MergeRaises(chunk2) == Len(chunk2.attention_mask) = 0

\* _merge_inputs(chunk1_raw, chunk2, sep_id), on a deep copy of chunk1_raw
merge_inputs(chunk1_raw, chunk2, sep, tti) ==
    [input_ids      |-> chunk1_raw.input_ids \o <<sep>> \o chunk2.input_ids \o <<sep>>,
     attention_mask |-> chunk1_raw.attention_mask \o <<chunk2.attention_mask[1]>>
                            \o chunk2.attention_mask \o <<chunk2.attention_mask[1]>>,
     token_type_ids |-> IF tti
                        THEN chunk1_raw.token_type_ids \o Ones(Len(chunk2.token_type_ids) + 2)
                        ELSE chunk1_raw.token_type_ids]

\* A slip the chunk claims must notice: the merge works on chunk1_raw itself.
RawMergedInPlace(chunk1_raw, chunk1) == chunk1

\* chunk1 = deepcopy(chunk1_raw): what the caller's chunk1_raw holds once
\* _merge_inputs has returned chunk1
RawAfterMerge(chunk1_raw, chunk1) == chunk1_raw

\* A slip the window claims must notice: the next window starts where this one ended.
NextStartNoOverlap(end_id, doc_inputs_length, overlap) == end_id

\* start_id = end_id - self.chunk_overlap if end_id < doc_inputs_length else end_id
NextStart(end_id, doc_inputs_length, overlap) ==
    IF end_id < doc_inputs_length THEN end_id - overlap ELSE end_id

DocLists == UNION {[1..k -> 0..MaxDocLen] : k \in 0..MaxDocs}
ChunkSizes == (MaxChunkSize - 4)..MaxChunkSize
Overlaps == 0..MaxOverlap

\* What the caller may pass: the small inputs, and the configuration
\* chunk_size=20, chunk_overlap=2 with a query of 4 tokens and a document of 30.
SmallInputs ==
    [query : 0..MaxQueryLen, documents : DocLists, chunk_size : ChunkSizes,
     chunk_overlap : Overlaps, tti : BOOLEAN]
ExampleInput ==
    [query |-> 2, documents |-> <<30>>, chunk_size |-> 20, chunk_overlap |-> 2, tti |-> TRUE]
SplitInputs == SmallInputs \cup {ExampleInput}

\* create_documents, lines 541-546: the empty result lists, the tokenized query
BeginCreateDocuments(in) ==
    /\ query' = in.query
    /\ documents' = in.documents
    /\ chunk_size' = in.chunk_size
    /\ chunk_overlap' = in.chunk_overlap
    /\ has_tti' = in.tti
    /\ query_inputs' = EncodeQuery(in.query, in.tti)
    /\ res_merge_inputs' = <<>>
    /\ res_merge_inputs_pids' = <<>>
    /\ pid' = 0
    /\ start_id' = 0
    /\ n_windows' = 0
    /\ pc' = "documents"

\* A caller invokes DocumentSplitter(...).create_documents(query, documents, tokenizer).
CreateDocumentsCall ==
    /\ UNCHANGED <<lossVars, colbertVars>>
    /\ pc = "idle"
    /\ \E in \in SplitInputs :
        /\ op' = "create_documents"
        /\ BeginCreateDocuments(in)
    /\ UNCHANGED <<exception, scoreVars, rerankVars>>

\* One pass of `for pid, document in enumerate(documents)` up to the branch:
\* a document that fits is merged and appended; a longer one enters the
\* sliding-window loop.
SplitDocument ==
    /\ UNCHANGED <<lossVars, colbertVars>>
    /\ pc = "documents"
    /\ pid < Len(documents)
    /\ LET document_inputs == EncodeDocument(documents[pid + 1], has_tti)
           doc_inputs_length == Len(document_inputs.input_ids)
       IN  IF doc_inputs_length <= doc_max_length
           THEN IF MergeRaises(document_inputs)
                THEN /\ pc' = "error"
                     /\ exception' = "IndexError"
                     /\ UNCHANGED <<res_merge_inputs, res_merge_inputs_pids, pid, start_id, n_windows,
                                    query_inputs>>
                ELSE /\ LET qc_merge_inputs ==
                                merge_inputs(query_inputs, document_inputs, sep_id, has_tti)
                        IN  /\ res_merge_inputs' = Append(res_merge_inputs, qc_merge_inputs)
                            /\ query_inputs' = RawAfterMerge(query_inputs, qc_merge_inputs)
                     /\ res_merge_inputs_pids' = Append(res_merge_inputs_pids, pid)
                     /\ pid' = pid + 1
                     /\ UNCHANGED <<pc, exception, start_id, n_windows>>
           ELSE /\ start_id' = 0
                /\ n_windows' = 0
                /\ pc' = "window"
                /\ UNCHANGED <<exception, res_merge_inputs, res_merge_inputs_pids, pid, query_inputs>>
    /\ UNCHANGED <<op, query, documents, chunk_size, chunk_overlap, has_tti>>
    /\ UNCHANGED <<scoreVars, rerankVars>>

\* One pass of `while start_id < doc_inputs_length`.
SlideWindow ==
    /\ UNCHANGED <<lossVars, colbertVars>>
    /\ pc = "window"
    /\ n_windows < MaxWindows
    /\ LET document_inputs == EncodeDocument(documents[pid + 1], has_tti)
           doc_inputs_length == Len(document_inputs.input_ids)
           end_id == start_id + doc_max_length
           sub_document_inputs == SubDocument(document_inputs, start_id, end_id)
       IN  /\ start_id < doc_inputs_length
           /\ start_id' = NextStart(end_id, doc_inputs_length, chunk_overlap)
           /\ IF MergeRaises(sub_document_inputs)
              THEN /\ pc' = "error"
                   /\ exception' = "IndexError"
                   /\ UNCHANGED <<res_merge_inputs, res_merge_inputs_pids, n_windows, query_inputs>>
              ELSE /\ LET qp_merge_inputs ==
                              merge_inputs(query_inputs, sub_document_inputs, sep_id, has_tti)
                      IN  /\ res_merge_inputs' = Append(res_merge_inputs, qp_merge_inputs)
                          /\ query_inputs' = RawAfterMerge(query_inputs, qp_merge_inputs)
                   /\ res_merge_inputs_pids' = Append(res_merge_inputs_pids, pid)
                   /\ n_windows' = n_windows + 1
                   /\ UNCHANGED <<pc, exception>>
    /\ UNCHANGED <<op, query, documents, chunk_size, chunk_overlap, has_tti, pid>>
    /\ UNCHANGED <<scoreVars, rerankVars>>

\* The while loop's condition fails: on to the next document.
WindowsDone ==
    /\ UNCHANGED <<lossVars, colbertVars>>
    /\ pc = "window"
    /\ start_id >= Len(EncodeDocument(documents[pid + 1], has_tti).input_ids)
    /\ pid' = pid + 1
    /\ pc' = "documents"
    /\ UNCHANGED <<op, exception, query, documents, chunk_size, chunk_overlap, has_tti,
                   query_inputs, res_merge_inputs, res_merge_inputs_pids, start_id, n_windows>>
    /\ UNCHANGED <<scoreVars, rerankVars>>

\* return res_merge_inputs, res_merge_inputs_pids
CreateDocumentsReturn ==
    /\ UNCHANGED <<lossVars, colbertVars>>
    /\ pc = "documents"
    /\ pid = Len(documents)
    /\ op = "create_documents"
    /\ pc' = "done"
    /\ UNCHANGED <<op, exception, query, documents, chunk_size, chunk_overlap, has_tti,
                   query_inputs, res_merge_inputs, res_merge_inputs_pids, pid, start_id, n_windows>>
    /\ UNCHANGED <<scoreVars, rerankVars>>

NextSplit ==
    \/ CreateDocumentsCall
    \/ SplitDocument
    \/ SlideWindow
    \/ WindowsDone
    \/ CreateDocumentsReturn

SpecSplit == Init /\ [][NextSplit]_vars

\* ------------------------------------------------------------- compute_score
\* The logits the encoder may answer for an item: scores are kept in
\* thousandths, so that the sigmoid of a logit is a number of the model.
Logits == {-1, 0, 1}
Raw(x) == 1000 * x

\* torch.sigmoid, in thousandths
Sigmoid(x) ==
    CASE x = -1 -> 269
      [] x = 0  -> 500
      [] x = 1  -> 731

\* scores = logits; if normalize: scores = torch.sigmoid(scores)
ScoreOf(x, nz) == IF nz THEN Sigmoid(x) ELSE Raw(x)

Range(f) == {f[x] : x \in DOMAIN f}

\* A slip the batching claim must notice: a slice that runs one item too far.
BatchOfOneMore(pairs, from, bs) ==
    SubSeq(pairs, from + 1, Min(from + bs + 1, Len(pairs)))

\* text_pairs[i : i + batch_size]
BatchOf(pairs, from, bs) == PySlice(pairs, from, from + bs)

\* compute_score, lines 196-202: a single pair is wrapped into a list, the
\* batch size is capped by the number of pairs, the score list starts empty.
\* text_pairs[0] raises IndexError on an empty list.
BeginComputeScore(pairs, bs, nz) ==
    /\ batch_size_arg' = bs
    /\ normalize' = nz
    /\ text_pairs' = pairs
    /\ scores_list' = <<>>
    /\ batches' = <<>>
    /\ batch_start' = 0
    /\ tot_scores' = NoScores
    /\ IF Len(pairs) = 0
       THEN /\ pc' = "error"
            /\ exception' = "IndexError"
            /\ batch_size' = 0
       ELSE /\ pc' = "scoring"
            /\ exception' = ""
            /\ batch_size' = Min(bs, Len(pairs))

\* The pairs a caller may pass to compute_score directly: texts, not chunks.
TextPairs == {<<1, d>> : d \in 1..MaxDocLen}
PairLists == UNION {[1..k -> TextPairs] : k \in 0..(MaxBatch + 1)}
PairArgs ==
    {[form |-> "pair", pair |-> tp, list |-> <<>>] : tp \in TextPairs}
        \cup {[form |-> "list", pair |-> <<>>, list |-> l] : l \in PairLists}

\* if isinstance(text_pairs[0], str): text_pairs = [text_pairs]
WrapPairs(arg) == IF arg.form = "pair" THEN <<arg.pair>> ELSE arg.list

\* A caller invokes compute_score(text_pairs, batch_size=..., normalize=...).
ComputeScoreCall ==
    /\ UNCHANGED <<lossVars, colbertVars>>
    /\ pc = "idle"
    /\ op' = "compute_score"
    /\ \E arg \in PairArgs, bs \in 1..MaxBatch, nz \in BOOLEAN :
           BeginComputeScore(WrapPairs(arg), bs, nz)
    /\ UNCHANGED <<splitVars, rerankVars, logits>>

\* One pass of `for i in range(0, len(text_pairs), batch_size)`: the slice is
\* tokenized or padded, the encoder gives one logit per item (the same logit
\* for the same item, whenever it is asked), the scores are appended.
ScoreBatch ==
    /\ UNCHANGED <<lossVars, colbertVars>>
    /\ pc = "scoring"
    /\ batch_start < Len(text_pairs)
    /\ LET batch == BatchOf(text_pairs, batch_start, batch_size)
       IN  \E lg \in [1..Len(batch) -> Logits] :
               /\ \A j \in 1..Len(batch) :
                      /\ batch[j] \in DOMAIN logits => lg[j] = logits[batch[j]]
                      /\ \A k \in 1..Len(batch) : batch[j] = batch[k] => lg[j] = lg[k]
               /\ logits' = [x \in DOMAIN logits \cup Range(batch) |->
                                IF x \in DOMAIN logits
                                THEN logits[x]
                                ELSE lg[CHOOSE j \in 1..Len(batch) : batch[j] = x]]
               /\ scores_list' = scores_list \o [j \in 1..Len(batch) |-> ScoreOf(lg[j], normalize)]
               /\ batches' = Append(batches, <<batch_start, Len(batch)>>)
    /\ batch_start' = batch_start + batch_size
    /\ UNCHANGED <<pc, op, exception, splitVars, rerankVars, batch_size_arg, normalize,
                   text_pairs, batch_size, tot_scores>>

\* if len(scores_list) == 1: return scores_list[0]; return scores_list
ComputeScoreReturn ==
    /\ UNCHANGED <<lossVars, colbertVars>>
    /\ pc = "scoring"
    /\ batch_start >= Len(text_pairs)
    /\ tot_scores' = [scalar |-> Len(scores_list) = 1, values |-> scores_list]
    /\ pc' = IF op = "rerank" THEN "aggregate" ELSE "done"
    /\ UNCHANGED <<op, exception, splitVars, rerankVars, batch_size_arg, normalize,
                   text_pairs, batch_size, batch_start, scores_list, batches, logits>>

NextScore ==
    \/ ComputeScoreCall
    \/ ScoreBatch
    \/ ComputeScoreReturn

SpecScore == Init /\ [][NextScore]_vars

\* ------------------------------------------------------------- rerank
\* A slip the early-return claim must notice: only the query is looked at.
EarlyReturnQueryOnly(q, docs) == q = 0

\* if query is None or len(query) == 0 or len(documents) == 0
EarlyReturn(q, docs) == q = 0 \/ Len(docs) = 0

RerankInputs ==
    [query : 0..MaxQueryLen, documents : DocLists, chunk_size : ChunkSizes,
     chunk_overlap : Overlaps, tti : BOOLEAN, batch_size : 1..MaxBatch,
     normalize : BOOLEAN]

\* rerank(query, documents, batch_size=..., chunk_max_length=..., chunk_overlap=...,
\* normalize=...), lines 246-256: the early return, or the splitter is built
\* and create_documents called.
Rerank(in) ==
    /\ op' = "rerank"
    /\ batch_size_arg' = in.batch_size
    /\ normalize' = in.normalize
    /\ IF EarlyReturn(in.query, in.documents)
       THEN /\ query' = in.query
            /\ documents' = in.documents
            /\ chunk_size' = in.chunk_size
            /\ chunk_overlap' = in.chunk_overlap
            /\ has_tti' = in.tti
            /\ result' = [keys |-> "rerank_documents,rerank_scores",
                          documents |-> <<>>, scores |-> <<>>, ids |-> <<>>]
            /\ pc' = "done"
            /\ UNCHANGED <<query_inputs, res_merge_inputs, res_merge_inputs_pids, pid,
                           start_id, n_windows, splitter_calls>>
       ELSE /\ BeginCreateDocuments(in)
            /\ splitter_calls' = splitter_calls + 1
            /\ result' = NoResult
    /\ merge_scores' = <<>>
    /\ UNCHANGED <<exception, text_pairs, batch_size, batch_start, scores_list, batches,
                   logits, tot_scores, argsorted>>

\* A caller invokes rerank.
RerankCall ==
    /\ UNCHANGED <<lossVars, colbertVars>>
    /\ pc = "idle"
    /\ \E in \in RerankInputs : Rerank(in)
    /\ rerank_calls' = 1
    /\ UNCHANGED <<perm, first>>

\* create_documents returns to rerank, which calls compute_score on the chunks.
RerankScore ==
    /\ UNCHANGED <<lossVars, colbertVars>>
    /\ pc = "documents"
    /\ pid = Len(documents)
    /\ op = "rerank"
    /\ BeginComputeScore(res_merge_inputs, batch_size_arg, normalize)
    /\ UNCHANGED <<op, splitVars, rerankVars, logits>>

\* A slip the permutation claim must notice: each chunk is given the score of
\* the chunk after it.
RECURSIVE MergeScoresShifted(_, _, _)
MergeScoresShifted(merged, pids, scores) ==
    IF Len(pids) = 0 \/ Len(scores) <= 1
    THEN merged
    ELSE MergeScoresShifted([merged EXCEPT ![Head(pids) + 1] = Max(@, scores[2])],
                            Tail(pids), Tail(scores))

\* merge_scores[pid] = max(merge_scores[pid], score) over zip(pids, scores),
\* from merge_scores = [0 for _ in range(len(documents))]
RECURSIVE MergeScores(_, _, _)
MergeScores(merged, pids, scores) ==
    IF Len(pids) = 0 \/ Len(scores) = 0
    THEN merged
    ELSE MergeScores([merged EXCEPT ![Head(pids) + 1] = Max(@, Head(scores))],
                     Tail(pids), Tail(scores))

Reverse(a) == [k \in 1..Len(a) |-> a[Len(a) + 1 - k]]

\* np.argsort(merge_scores): the indices in an order that sorts the scores
\* ascending.  The order of equal scores is not specified (the default kind
\* is not stable), but the same array is sorted the same way every time.
Argsorts(ms) ==
    {a \in [1..Len(ms) -> 0..(Len(ms) - 1)] :
        /\ \A j, k \in 1..Len(ms) : j # k => a[j] # a[k]
        /\ \A j \in 1..(Len(ms) - 1) : ms[a[j] + 1] <= ms[a[j + 1] + 1]}

\* A slip the ordering claim must notice: the ascending order is not reversed.
RankingsAscending(ms) == Argsorts(ms)

\* np.argsort(merge_scores)[::-1]
Rankings(ms) == {Reverse(a) : a \in Argsorts(ms)}

\* The rest of rerank, lines 266-284: zip over a single float raises
\* TypeError; else the scores are merged per document, ranked, and returned.
Aggregate ==
    /\ UNCHANGED <<lossVars, colbertVars>>
    /\ pc = "aggregate"
    /\ op = "rerank"
    /\ IF tot_scores.scalar
       THEN /\ pc' = "error"
            /\ exception' = "TypeError"
            /\ UNCHANGED <<merge_scores, result, argsorted>>
       ELSE /\ merge_scores' = MergeScores([d \in 1..Len(documents) |-> 0],
                                           res_merge_inputs_pids, tot_scores.values)
            /\ \E merge_scores_argsort \in Rankings(merge_scores'), return_dict \in BOOLEAN :
                /\ merge_scores' \in DOMAIN argsorted =>
                       merge_scores_argsort = argsorted[merge_scores']
                /\ argsorted' = [ms \in DOMAIN argsorted \cup {merge_scores'} |->
                                    IF ms = merge_scores' THEN merge_scores_argsort
                                    ELSE argsorted[ms]]
                /\ result' =
                       IF return_dict
                       THEN [keys      |-> "rerank_document,rerank_scores,rerank_ids",
                             documents |-> [k \in 1..Len(documents) |->
                                               documents[merge_scores_argsort[k] + 1]],
                             scores    |-> [k \in 1..Len(documents) |->
                                               merge_scores'[merge_scores_argsort[k] + 1]],
                             ids       |-> merge_scores_argsort]
                       ELSE [keys      |-> "",
                             documents |-> [k \in 1..Len(documents) |->
                                               documents[merge_scores_argsort[k] + 1]],
                             scores    |-> <<>>,
                             ids       |-> <<>>]
            /\ pc' = "done"
            /\ UNCHANGED exception
    /\ UNCHANGED <<op, splitVars, scoreVars, splitter_calls, harnessVars>>

\* The permutations of 0..n-1
Perms(n) ==
    {f \in [1..n -> 0..(n - 1)] : \A j, k \in 1..n : j # k => f[j] # f[k]}

\* The caller calls rerank again on the same ranker, with the same arguments
\* but the documents in another order: document j of the first call is
\* document f[j+1] of the second.  The encoder is the same, and answers the
\* same for the same item.
RerankPermuted ==
    /\ UNCHANGED <<lossVars, colbertVars>>
    /\ pc = "done"
    /\ op = "rerank"
    /\ rerank_calls = 1
    /\ result.ids # <<>>
    /\ \E f \in Perms(Len(documents)) :
           /\ perm' = f
           /\ first' = [documents |-> documents, merge_scores |-> merge_scores,
                        result |-> result]
           /\ Rerank([query |-> query,
                      documents |-> [k \in 1..Len(documents) |->
                                        documents[(CHOOSE j \in 1..Len(documents) : f[j] = k - 1)]],
                      chunk_size |-> chunk_size, chunk_overlap |-> chunk_overlap,
                      tti |-> has_tti, batch_size |-> batch_size_arg,
                      normalize |-> normalize])
    /\ rerank_calls' = 2

\* The first of the two calls: a query of one word, windows of one token
\* without overlap or of two tokens overlapping by one.
TwiceInputs ==
    {in \in RerankInputs :
        /\ in.query = 1
        /\ in.tti
        /\ ~in.normalize
        /\ in.batch_size = MaxBatch
        /\ in.chunk_size - Len(EncodeQuery(1, TRUE).input_ids) - 2 \in {1, 2}
        /\ in.chunk_overlap = in.chunk_size - Len(EncodeQuery(1, TRUE).input_ids) - 3}

RerankFirstCall ==
    /\ UNCHANGED <<lossVars, colbertVars>>
    /\ pc = "idle"
    /\ \E in \in TwiceInputs : Rerank(in)
    /\ rerank_calls' = 1
    /\ UNCHANGED <<perm, first>>

Next ==
    \/ RerankCall
    \/ SplitDocument
    \/ SlideWindow
    \/ WindowsDone
    \/ RerankScore
    \/ ScoreBatch
    \/ ComputeScoreReturn
    \/ Aggregate

Spec == Init /\ [][Next]_vars

NextPermuted ==
    \/ RerankFirstCall
    \/ SplitDocument
    \/ SlideWindow
    \/ WindowsDone
    \/ RerankScore
    \/ ScoreBatch
    \/ ComputeScoreReturn
    \/ Aggregate
    \/ RerankPermuted

SpecPermuted == Init /\ [][NextPermuted]_vars

\* ------------------------------------------------------------- InfoNCE
\* Embeddings are modelled by their shapes: what forward does with them but
\* compute numbers is to fail, or not, on shapes that do not fit.
Dims == 1..MaxDim
Shapes2 == {<<n, d>> : n \in Dims, d \in Dims}
Shapes3 == {<<b, m, d>> : b \in Dims, m \in Dims, d \in Dims}
Modes == {"unpaired", "paired", "hard"}

\* A slip the negative_mode claim must notice: `else` for `elif ... == 'paired'`.
NegativeBranchElsePaired(mode) == IF mode = "unpaired" THEN "unpaired" ELSE "paired"

\* if self.negative_mode == 'unpaired' ... elif ... == 'paired' ... else: raise ValueError
NegativeBranch(mode) ==
    IF mode = "unpaired" THEN "unpaired"
    ELSE IF mode = "paired" THEN "paired"
    ELSE "raise"

\* Two sizes that broadcast against each other
Fits(a, b) == a = b \/ a = 1 \/ b = 1

\* The shape of negative_logits, <<>> when the matrix product fails.
\* unpaired: query_embeddings @ negative_embeddings.transpose(-2, -1)
\* paired: (query_embeddings.unsqueeze(1) @ negative_embeddings.transpose(-2, -1)).squeeze(1)
NegativeLogits(branch, q, neg) ==
    IF q[2] # neg[Len(neg)]
    THEN <<>>
    ELSE IF branch = "unpaired"
         THEN IF Len(neg) = 2 THEN <<q[1], neg[1]>> ELSE <<neg[1], q[1], neg[2]>>
         ELSE IF Len(neg) = 2
              THEN <<q[1], neg[1]>>
              ELSE IF Fits(q[1], neg[1]) THEN <<Max(q[1], neg[1]), neg[2]>> ELSE <<>>

\* InfoNCE.forward on embeddings of these shapes (negative = <<>> for None),
\* with the default criterion, a cross entropy: "loss", or the error raised.
ForwardOutcome(mode, q, p, neg) ==
    IF neg = <<>>
    THEN \* logits1 = q @ p.T, labels = arange(len(logits1)); the criterion on
         \* logits1 and on logits1.T needs as many rows as labels, and classes
         IF q[2] = p[2] /\ q[1] = p[1] THEN "loss" ELSE "shape_error"
    ELSE \* positive_logit = torch.sum(q * p, dim=1, keepdim=True)
         IF ~(Fits(q[1], p[1]) /\ Fits(q[2], p[2]))
         THEN "shape_error"
         ELSE IF NegativeBranch(mode) = "raise"
              THEN "ValueError"
              ELSE LET negative_logits == NegativeLogits(NegativeBranch(mode), q, neg)
                   IN  \* torch.cat([positive_logit, negative_logits], dim=1)
                       IF Len(negative_logits) = 2 /\ negative_logits[1] = Max(q[1], p[1])
                       THEN "loss"
                       ELSE "shape_error"

\* InfoNCE(negative_mode=...): the mode is stored as given.
InfoNCEInit ==
    /\ pc = "idle"
    /\ op' = "InfoNCE"
    /\ pc' = "constructed"
    /\ \E mode \in Modes : negative_mode' = mode
    /\ UNCHANGED <<exception, splitVars, scoreVars, rerankVars, forward_args, forward_outcome>>
    /\ UNCHANGED colbertVars

\* loss(query_embeddings, positive_embeddings, negative_embeddings=None); forward
\* changes nothing of the loss object, so one call stands for every call.
Forward ==
    /\ pc = "constructed"
    /\ pc' = "done"
    /\ \E q \in Shapes2, p \in Shapes2, neg \in {<<>>} \cup Shapes2 \cup Shapes3 :
           /\ forward_args' = [query |-> q, positive |-> p, negative |-> neg]
           /\ forward_outcome' = ForwardOutcome(negative_mode, q, p, neg)
    /\ UNCHANGED <<op, exception, splitVars, scoreVars, rerankVars, negative_mode>>
    /\ UNCHANGED colbertVars

NextLoss ==
    \/ InfoNCEInit
    \/ Forward

SpecLoss == Init /\ [][NextLoss]_vars

\* ------------------------------------------------------------- ColBERT.score
\* A token vector has two coordinates; a per-token matrix [seq_len, dim] is a
\* sequence of token vectors.  One pair stands for a batch: every operation
\* of score works row by row of the batch dimension.
\* Coordinates are whole numbers, and the arithmetic on them is exact.
Coords == {0, 1}
TokenVectors == {<<x, y>> : x \in Coords, y \in Coords}
Matrices == UNION {[1..n -> TokenVectors] : n \in 0..MaxTokens}
Metrics == {"cosine", "l2", "dot"}

\* .sum(-1)
RECURSIVE SumLast(_)
SumLast(v) == IF v = <<>> THEN 0 ELSE v[1] + SumLast(Tail(v))

\* A slip the scoring claim must notice: the least entry instead of the greatest.
RECURSIVE MinLast(_)
MinLast(v) == IF Len(v) = 1 THEN v[1] ELSE Min(v[1], MinLast(Tail(v)))

\* .max(-1).values, of a row that holds an entry
RECURSIVE MaxLast(_)
MaxLast(v) == IF Len(v) = 1 THEN v[1] ELSE Max(v[1], MaxLast(Tail(v)))

\* -1.0 * ((query_embedding.unsqueeze(2) - document_embedding.unsqueeze(1)) ** 2).sum(-1):
\* entry [i][j] is set from query token i and document token j.
NegSquaredDistances(q, d) ==
    [i \in 1..Len(q) |->
        [j \in 1..Len(d) |->
            -1 * SumLast([k \in 1..Len(q[i]) |-> (q[i][k] - d[j][k]) * (q[i][k] - d[j][k])])]]

\* query_embedding @ document_embedding.permute(0, 2, 1)
Products(q, d) ==
    [i \in 1..Len(q) |->
        [j \in 1..Len(d) |-> SumLast([k \in 1..Len(q[i]) |-> q[i][k] * d[j][k]])]]

\* (...).max(-1).values.sum(-1)
MaxSum(m) == SumLast([i \in 1..Len(m) |-> MaxLast(m[i])])

\* score(query_embedding, document_embedding, similarity_metric): the value, or
\* the error raised.  A maximum over no document token is an error of torch.
Score(metric, q, d) ==
    CASE metric = "cosine" ->
            IF Len(d) = 0 THEN [error |-> "IndexError", value |-> 0]
            ELSE [error |-> "", value |-> MaxSum(Products(q, d))]
      [] metric = "l2" ->
            IF Len(d) = 0 THEN [error |-> "IndexError", value |-> 0]
            ELSE [error |-> "", value |-> MaxSum(NegSquaredDistances(q, d))]
      [] OTHER -> [error |-> "ValueError", value |-> 0]

\* A caller invokes ColBERT.score on the matrices of one pair.
ColBERTScore ==
    /\ pc = "idle"
    /\ op' = "score"
    /\ \E metric \in Metrics, q \in Matrices, d \in Matrices :
           /\ similarity_metric' = metric
           /\ query_embedding' = q
           /\ document_embedding' = d
           /\ score' = Score(metric, q, d).value
           /\ exception' = Score(metric, q, d).error
           /\ pc' = IF Score(metric, q, d).error = "" THEN "done" ELSE "error"
    /\ UNCHANGED <<splitVars, scoreVars, rerankVars, lossVars>>

NextColBERT == ColBERTScore

SpecColBERT == Init /\ [][NextColBERT]_vars

\* ------------------------------------------------------------- chunks, read back
\* The document tokens of a chunk: what lies between its two separators.
DocPart(c) ==
    SubSeq(c.input_ids, Len(query_inputs.input_ids) + 2, Len(c.input_ids) - 1)

\* The document of n tokens has the ids 1..n: a window [s, e) of it holds s+1..e.
WStart(i) == DocPart(res_merge_inputs[i])[1] - 1
WEnd(i) == WStart(i) + Len(DocPart(res_merge_inputs[i]))
IsWindow(i) ==
    /\ Len(DocPart(res_merge_inputs[i])) > 0
    /\ DocPart(res_merge_inputs[i]) = [k \in 1..(WEnd(i) - WStart(i)) |-> WStart(i) + k]

\* The positions, in the result list, of the chunks of document p.
ChunkIdx(p) == {i \in 1..Len(res_merge_inputs_pids) : res_merge_inputs_pids[i] = p}

DocIds == 0..(Len(documents) - 1)

\* Document p has been dealt with: the loop is past it, or failed on it.
Handled(p) ==
    /\ pc \in {"documents", "window", "done", "error"}
    /\ op = "create_documents"
    /\ \/ pid > p
       \/ pid = p /\ pc = "error"

\* ------------------------------------------------------------- C3
\* C3: every document of at most doc_max_length tokens, one of 0 tokens
\* included, gives exactly one chunk, of query_len + doc_len + 2 tokens.
C3_FittingDocumentOneChunk ==
    \A p \in DocIds :
        (Handled(p) /\ documents[p + 1] <= doc_max_length) =>
            /\ Cardinality(ChunkIdx(p)) = 1
            /\ \A i \in ChunkIdx(p) :
                   Len(res_merge_inputs[i].input_ids)
                       = Len(query_inputs.input_ids) + documents[p + 1] + 2

\* ------------------------------------------------------------- C4
\* C4: when create_documents returns, the windows of every document longer than
\* doc_max_length start at 0, end at the document's end, leave no gap, and
\* every pair of consecutive windows but possibly the last overlaps by exactly
\* chunk_overlap tokens; chunk_size=20, chunk_overlap=2, a query of 4 tokens and
\* a document of 30 give [0,14), [12,26), [24,30).
C4_WindowsCoverWithOverlap ==
    (pc = "done" /\ op = "create_documents") =>
        /\ \A p \in DocIds :
               documents[p + 1] > doc_max_length =>
                   /\ documents[p + 1] > 0 => ChunkIdx(p) # {}
                   /\ \A i \in ChunkIdx(p) :
                          /\ IsWindow(i)
                          /\ (i - 1) \notin ChunkIdx(p) => WStart(i) = 0
                          /\ (i + 1) \notin ChunkIdx(p) => WEnd(i) = documents[p + 1]
                          /\ (i + 1) \in ChunkIdx(p) =>
                                 /\ WStart(i + 1) <= WEnd(i)
                                 /\ WEnd(i + 1) > WEnd(i)
                          /\ ((i + 1) \in ChunkIdx(p) /\ (i + 2) \in ChunkIdx(p)) =>
                                 WEnd(i) - WStart(i + 1) = chunk_overlap
        /\ (documents = ExampleInput.documents /\ chunk_size = ExampleInput.chunk_size
              /\ chunk_overlap = ExampleInput.chunk_overlap /\ query = ExampleInput.query) =>
               /\ Len(res_merge_inputs) = 3
               /\ <<WStart(1), WEnd(1)>> = <<0, 14>>
               /\ <<WStart(2), WEnd(2)>> = <<12, 26>>
               /\ <<WStart(3), WEnd(3)>> = <<24, 30>>

\* A returned split of a long document into three windows or more, with an overlap.
C4_Witness ==
    /\ pc = "done"
    /\ op = "create_documents"
    /\ chunk_overlap > 0
    /\ \E p \in DocIds :
           /\ documents[p + 1] > doc_max_length
           /\ Cardinality(ChunkIdx(p)) >= 3

\* ------------------------------------------------------------- C5
\* C5: every chunk in the result list has at most chunk_size tokens, and its
\* document window at most doc_max_length.
C5_ChunkWithinBudget ==
    (op = "create_documents") =>
        \A i \in 1..Len(res_merge_inputs) :
            /\ Len(res_merge_inputs[i].input_ids) <= chunk_size
            /\ Len(DocPart(res_merge_inputs[i])) <= doc_max_length

\* ------------------------------------------------------------- C1
RECURSIVE MaxOf(_)
MaxOf(S) ==
    LET x == CHOOSE y \in S : TRUE
    IN  IF S = {x} THEN x ELSE Max(x, MaxOf(S \ {x}))

\* C1: when rerank has merged the chunk scores, the merged score of every
\* document is the maximum of the scores of its chunks, whatever their sign.
C1_MergedScoreIsMaxOfChunks ==
    (pc = "done" /\ op = "rerank" /\ merge_scores # <<>>) =>
        \A d \in DocIds :
            ChunkIdx(d) # {} =>
                merge_scores[d + 1] = MaxOf({tot_scores.values[j] : j \in ChunkIdx(d)})

\* ------------------------------------------------------------- C2
IsPermutation(a, n) ==
    /\ Len(a) = n
    /\ \A d \in 0..(n - 1) : \E k \in 1..n : a[k] = d

\* C2: rerank on a non-empty query and a non-empty document list ends without
\* error, with one entry per document.  Stated for the documents the splitter
\* has no trouble with: a token or more each, and windows wider than the overlap.
C2_RerankReturnsEveryDocument ==
    (/\ op = "rerank"
     /\ query > 0
     /\ Len(documents) > 0
     /\ \A k \in 1..Len(documents) : documents[k] >= 1
     /\ chunk_overlap < doc_max_length) =>
        /\ pc # "error"
        /\ pc = "done" =>
               /\ Len(result.documents) = Len(documents)
               /\ result.ids # <<>> =>
                      /\ IsPermutation(result.ids, Len(documents))
                      /\ Len(result.scores) = Len(documents)

\* ------------------------------------------------------------- C6
\* C6: rerank on an empty query or an empty document list returns empty
\* documents and scores, without error and without a call of the splitter or
\* of the scorer.
C6_EmptyInputEmptyResult ==
    (op = "rerank" /\ (query = 0 \/ Len(documents) = 0)) =>
        /\ pc = "done"
        /\ exception = ""
        /\ result.documents = <<>>
        /\ result.scores = <<>>
        /\ splitter_calls = 0
        /\ query_inputs = NoInputs
        /\ batches = <<>>
        /\ logits = <<>>

\* rerank has returned for an empty document list and a query that is not empty.
C6_Witness ==
    /\ op = "rerank"
    /\ pc = "done"
    /\ query > 0
    /\ Len(documents) = 0
    /\ chunk_overlap > 0

\* ------------------------------------------------------------- C7
\* C7: a non-empty result of rerank has its scores in non-increasing order, and
\* at each position the document and the score of the original index there.
C7_RankedDescendingAndParallel ==
    (pc = "done" /\ op = "rerank" /\ result.ids # <<>>) =>
        /\ Len(result.ids) = Len(documents)
        /\ Len(result.documents) = Len(documents)
        /\ Len(result.scores) = Len(documents)
        /\ \A k \in 1..(Len(documents) - 1) : result.scores[k] >= result.scores[k + 1]
        /\ \A k \in 1..Len(documents) :
               /\ result.ids[k] \in DocIds
               /\ result.documents[k] = documents[result.ids[k] + 1]
               /\ result.scores[k] = merge_scores[result.ids[k] + 1]

\* rerank has returned two or more documents whose merged scores differ, the
\* better one given last.
C7_Witness ==
    /\ pc = "done"
    /\ op = "rerank"
    /\ result.ids # <<>>
    /\ Len(documents) >= 2
    /\ merge_scores[1] < merge_scores[Len(documents)]

\* ------------------------------------------------------------- C8
\* C8: compute_score on k >= 1 pairs hands the encoder consecutive slices of at
\* most batch_size pairs that together hold every pair once, and returns one
\* number when k = 1, else the k scores in the order of the pairs.
C8_EveryPairScoredOnceInOrder ==
    (pc = "done" /\ op = "compute_score") =>
        /\ Len(text_pairs) >= 1
        /\ Len(batches) >= 1
        /\ batches[1][1] = 0
        /\ \A b \in 1..Len(batches) :
               /\ batches[b][2] >= 1
               /\ batches[b][2] <= batch_size_arg
               /\ b < Len(batches) => batches[b + 1][1] = batches[b][1] + batches[b][2]
               /\ b = Len(batches) => batches[b][1] + batches[b][2] = Len(text_pairs)
        /\ tot_scores.scalar <=> Len(text_pairs) = 1
        /\ Len(tot_scores.values) = Len(text_pairs)
        /\ \A j \in 1..Len(text_pairs) :
               tot_scores.values[j] = ScoreOf(logits[text_pairs[j]], normalize)

\* compute_score has returned for three pairs or more scored in slices of two,
\* two of the pairs scored differently.
C8_Witness ==
    /\ pc = "done"
    /\ op = "compute_score"
    /\ Len(text_pairs) >= 3
    /\ batch_size_arg = 2
    /\ Len(batches) >= 2
    /\ tot_scores.values[1] # tot_scores.values[3]

\* ------------------------------------------------------------- C10
SecondCallReturned ==
    /\ pc = "done"
    /\ op = "rerank"
    /\ rerank_calls = 2
    /\ result.ids # <<>>

DocumentsDiffer ==
    \A j, k \in 1..Len(documents) : j # k => documents[j] # documents[k]

SameMergedScores ==
    \A j \in 1..Len(documents) : merge_scores[perm[j] + 1] = first.merge_scores[j]

PermutedIds ==
    \A k \in 1..Len(documents) : result.ids[k] = perm[first.result.ids[k] + 1]

\* C10 as claimed: a second call with the documents permuted gives every
\* document its former merged score and returns the images of the former
\* indices.  Stated for documents that differ pairwise, so that the permutation
\* is the only one that leads from the first list to the second.
C10_PermutationEquivariant ==
    (SecondCallReturned /\ DocumentsDiffer) => (SameMergedScores /\ PermutedIds)

\* C10 as amended: every document keeps its merged score and the returned
\* score list is the same; the returned indices are the images of the former
\* ones when no two documents have the same merged score.
C10_EquivariantUpToTies ==
    SecondCallReturned =>
        /\ SameMergedScores
        /\ result.scores = first.result.scores
        /\ (\A j, k \in 1..Len(documents) : j # k => merge_scores[j] # merge_scores[k]) =>
               /\ PermutedIds
               /\ result.documents = first.result.documents

\* The second call has returned for two documents or more that changed places
\* and have different merged scores.
C10_Witness ==
    /\ SecondCallReturned
    /\ DocumentsDiffer
    /\ Len(documents) >= 2
    /\ perm[1] # 0
    /\ \A j, k \in 1..Len(documents) : j # k => merge_scores[j] # merge_scores[k]

\* ------------------------------------------------------------- C9
ForwardCalled == op = "InfoNCE" /\ forward_outcome # ""
UnknownMode == negative_mode \notin {"unpaired", "paired"}

\* C9 as claimed: with a negative_mode that is neither 'unpaired' nor 'paired',
\* every call of forward fails with the invalid-argument error, negatives or
\* not.  Stated for query and positive embeddings of one shape.
C9_UnknownModeAlwaysFails ==
    (ForwardCalled /\ UnknownMode /\ forward_args.query = forward_args.positive) =>
        forward_outcome = "ValueError"

\* C9 as amended: with such a negative_mode no call that supplies negative
\* embeddings returns a loss, and it fails with the invalid-argument error
\* when the query and positive embeddings have one shape; a call without
\* negative embeddings returns the loss.
C9_UnknownModeFailsWithNegatives ==
    (ForwardCalled /\ UnknownMode) =>
        /\ forward_args.negative # <<>> => forward_outcome # "loss"
        /\ forward_args.query = forward_args.positive =>
               IF forward_args.negative # <<>>
               THEN forward_outcome = "ValueError"
               ELSE forward_outcome = "loss"

\* forward was called with negatives that would fit the unpaired mode, on a loss
\* whose negative_mode is unknown.
C9_Witness ==
    /\ ForwardCalled
    /\ UnknownMode
    /\ forward_args.query = forward_args.positive
    /\ Len(forward_args.negative) = 2
    /\ forward_args.negative[2] = forward_args.query[2]
    /\ forward_outcome = "ValueError"

\* ------------------------------------------------------------- C11
\* C11: create_documents always comes to its end: on every pass of the
\* sliding-window loop that emits a chunk and stays in the loop, the window
\* start is strictly greater than before, so the loop over a document ends
\* after finitely many chunks.  Stated for the configurations that leave room
\* for a document token (doc_max_length > 0).
C11_WindowStartIncreases ==
    [][(op = "create_documents" /\ doc_max_length > 0 /\ pc = "window" /\ pc' = "window"
            /\ n_windows' # n_windows) => start_id' > start_id]_vars

\* ------------------------------------------------------------- C12
\* w is a run of consecutive tokens of the document of n tokens.
IsDocumentWindow(w, n) ==
    \E a \in 1..n : \E b \in a..n : w = [k \in 1..(b - a + 1) |-> a + k - 1]

\* C12: every chunk in the result list, whatever came before it, is the
\* tokens of the original query, SEP, a window of its document, SEP; its
\* attention mask and, when tracked, its token-type ids are as long as its
\* token ids, with type 1 at every document and separator position; and the
\* tokenized query is what the tokenizer returned for the query.
C12_ChunkIsQuerySepWindowSep ==
    (op = "create_documents") =>
        LET q == EncodeQuery(query, has_tti)
            qlen == Len(q.input_ids)
        IN  /\ query_inputs = q
            /\ Len(res_merge_inputs_pids) = Len(res_merge_inputs)
            /\ \A i \in 1..Len(res_merge_inputs) :
                   LET c == res_merge_inputs[i]
                       n == documents[res_merge_inputs_pids[i] + 1]
                       L == Len(c.input_ids)
                   IN  /\ L >= qlen + 2
                       /\ SubSeq(c.input_ids, 1, qlen) = q.input_ids
                       /\ c.input_ids[qlen + 1] = sep_id
                       /\ c.input_ids[L] = sep_id
                       /\ IsDocumentWindow(SubSeq(c.input_ids, qlen + 2, L - 1), n)
                       /\ Len(c.attention_mask) = L
                       /\ has_tti =>
                              /\ Len(c.token_type_ids) = L
                              /\ \A k \in (qlen + 1)..L : c.token_type_ids[k] = 1

\* A returned split, token-type ids tracked, of a document cut into windows
\* followed by another document: the last chunk has chunks of two kinds before it.
C12_Witness ==
    /\ pc = "done"
    /\ op = "create_documents"
    /\ has_tti
    /\ query > 0
    /\ Len(documents) = 2
    /\ Cardinality(ChunkIdx(0)) >= 2
    /\ ChunkIdx(1) # {}

\* ------------------------------------------------------------- C13
\* The squared Euclidean distance of two token vectors.
SquaredDistance(u, v) == (u[1] - v[1]) * (u[1] - v[1]) + (u[2] - v[2]) * (u[2] - v[2])

\* The least squared distance from query token i to a document token.
LeastDistance(i) ==
    CHOOSE x \in {SquaredDistance(query_embedding[i], document_embedding[j]) :
                     j \in 1..Len(document_embedding)} :
        \A j \in 1..Len(document_embedding) :
            x <= SquaredDistance(query_embedding[i], document_embedding[j])

\* C13: under the l2 metric the score of a pair is the sum, over the query
\* tokens, of the greatest negated squared distance to a document token; it
\* is never positive, and it is 0 exactly when every query token vector is a
\* document token vector.
C13_L2ScoreIsSumOfMaxNegDistance ==
    (op = "score" /\ pc = "done" /\ similarity_metric = "l2") =>
        /\ score = SumLast([i \in 1..Len(query_embedding) |-> -1 * LeastDistance(i)])
        /\ score <= 0
        /\ score = 0 <=>
               \A i \in 1..Len(query_embedding) :
                   \E j \in 1..Len(document_embedding) :
                       query_embedding[i] = document_embedding[j]

\* An l2 score of 0 where each of two different query tokens is a document
\* token, and is at a distance from the other document token.
C13_Witness ==
    /\ op = "score"
    /\ pc = "done"
    /\ similarity_metric = "l2"
    /\ Len(query_embedding) = 2
    /\ Len(document_embedding) = 2
    /\ query_embedding[1] # query_embedding[2]
    /\ query_embedding[1] = document_embedding[2]
    /\ query_embedding[2] = document_embedding[1]
    /\ score = 0

====
